---- MODULE Spec2Model ----
(***************************************************************************)
(* Model of the command pipeline of autoops_aws.cli: Command (command.py)  *)
(* and CLIInterface (interface.py): parsing a line into a Command, the     *)
(* approval step, and the dispatch of the command to boto3.                *)
(*                                                                         *)
(* A line of text is a sequence of one-character strings.  Command         *)
(* objects live in the heap `cmds`; a command's identity is its index.     *)
(*                                                                         *)
(* Spec is a session that uses the three public operations of the          *)
(* CLIInterface; SpecApi also constructs Command objects with arbitrary    *)
(* arguments and calls Command.approve on them directly; SpecParse is      *)
(* process_input alone; SpecApp is the loop of CLIApp (app.py); SpecTasks  *)
(* is approve_command run by asyncio tasks; SpecAi is the AI CLI           *)
(* (ai_cli.py).                                                            *)
(***************************************************************************)
EXTENDS Integers, Sequences, FiniteSets, TLC

(***************************************************************************)
(* Bounds of the model.                                                    *)
(***************************************************************************)
\* number of Command objects created in one session of the CLIInterface
MaxCmds == 2
\* number of Command objects when they are also built and approved directly
MaxObjects == 1
\* length of command_history
MaxHist == 2
\* number of boto3 method invocations recorded
MaxCalls == 2
\* readings of datetime.now() are 0..MaxClock
MaxClock == 1
\* number of asyncio tasks running approve_command
MaxTasks == 2
\* number of lines the AI CLI reads
MaxRead == 3

(***************************************************************************)
(* Characters and lines.                                                   *)
(***************************************************************************)
UpperSeq ==
  << "A", "B", "C", "D", "E", "F", "G", "H", "I", "J", "K", "L", "M",
     "N", "O", "P", "Q", "R", "S", "T", "U", "V", "W", "X", "Y", "Z" >>

LowerSeq ==
  << "a", "b", "c", "d", "e", "f", "g", "h", "i", "j", "k", "l", "m",
     "n", "o", "p", "q", "r", "s", "t", "u", "v", "w", "x", "y", "z" >>

Digits == { "0", "1", "2", "3", "4", "5", "6", "7", "8", "9" }

\* what str.strip() removes and the regex class \s matches
Whitespace == { " ", "\t" }

\* the regex class [a-z0-9]
AlnumClass == { LowerSeq[i] : i \in 1..26 } \cup Digits

\* the regex class [a-z0-9-]
BucketClass == AlnumClass \cup { "-" }

\* str.lower() on one character
LowerChar(ch) ==
  IF \E i \in 1..26 : UpperSeq[i] = ch
    THEN LowerSeq[CHOOSE i \in 1..26 : UpperSeq[i] = ch]
    ELSE ch

\* Lower, leaving the text as typed
LowerNotApplied(s) == s

\* str.lower()
Lower(s) == [ i \in 1..Len(s) |-> LowerChar(s[i]) ]

\* str.strip(): drop the leading and the trailing whitespace
Strip(s) ==
  LET keep == { i \in 1..Len(s) : s[i] \notin Whitespace }
  IN  IF keep = {} THEN << >>
      ELSE LET lo == CHOOSE i \in keep : \A j \in keep : i <= j
               hi == CHOOSE i \in keep : \A j \in keep : j <= i
           IN  SubSeq(s, lo, hi)

(***************************************************************************)
(* Regular expressions of _compile_command_patterns.  A pattern is a       *)
(* sequence of elements: a literal, or a character class under `+`; `cap`  *)
(* marks the elements inside capture group 1.  Every `+` class is followed *)
(* by a literal that starts outside the class, or ends the pattern, so the *)
(* greedy match never backtracks and is the longest run.                   *)
(***************************************************************************)
Lit(chars) == [ k |-> "lit", chars |-> chars, class |-> {}, cap |-> FALSE ]

\* CapLit, outside the capture group
CapLitUncaptured(chars) == [ k |-> "lit", chars |-> chars, class |-> {}, cap |-> FALSE ]

\* a literal inside capture group 1
CapLit(chars) == [ k |-> "lit", chars |-> chars, class |-> {}, cap |-> TRUE ]

Ws == [ k |-> "plus", chars |-> << >>, class |-> Whitespace, cap |-> FALSE ]

CapPlus(class) == [ k |-> "plus", chars |-> << >>, class |-> class, cap |-> TRUE ]

\* the number of consecutive characters of s, from position pos, that are in class
RECURSIVE RunLen(_, _, _)
RunLen(s, pos, class) ==
  IF pos <= Len(s) /\ s[pos] \in class
    THEN 1 + RunLen(s, pos + 1, class)
    ELSE 0

\* the number of characters element e consumes at position pos, or -1
ElemLen(e, s, pos) ==
  IF e.k = "lit"
    THEN IF pos + Len(e.chars) - 1 <= Len(s)
            /\ SubSeq(s, pos, pos + Len(e.chars) - 1) = e.chars
           THEN Len(e.chars)
           ELSE -1
    ELSE IF RunLen(s, pos, e.class) >= 1
           THEN RunLen(s, pos, e.class)
           ELSE -1

\* pattern.match(s): anchored at the start of s, not at its end
RECURSIVE MatchFrom(_, _, _, _, _)
MatchFrom(pat, k, s, pos, group) ==
  IF k > Len(pat)
    THEN [ ok |-> TRUE, group |-> group, end |-> pos - 1 ]
    ELSE LET n == ElemLen(pat[k], s, pos)
         IN  IF n < 0
               THEN [ ok |-> FALSE, group |-> << >>, end |-> 0 ]
               ELSE MatchFrom(pat, k + 1, s, pos + n,
                              IF pat[k].cap
                                THEN group \o SubSeq(s, pos, pos + n - 1)
                                ELSE group)

Match(pat, s) == MatchFrom(pat, 1, s, 1, << >>)

\* words of the grammar
W_list == << "l", "i", "s", "t" >>
W_ec2 == << "e", "c", "2" >>
W_s3 == << "s", "3" >>
W_instances == << "i", "n", "s", "t", "a", "n", "c", "e", "s" >>
W_instance == << "i", "n", "s", "t", "a", "n", "c", "e" >>
W_terminate == << "t", "e", "r", "m", "i", "n", "a", "t", "e" >>
W_create == << "c", "r", "e", "a", "t", "e" >>
W_bucket == << "b", "u", "c", "k", "e", "t" >>
W_buckets == << "b", "u", "c", "k", "e", "t", "s" >>
W_help == << "h", "e", "l", "p" >>
W_exit == << "e", "x", "i", "t" >>
W_quit == << "q", "u", "i", "t" >>

\* the rule table, in the insertion order of the dict
command_patterns ==
  << [ name |-> "list_instances",
       pattern |-> << Lit(W_list), Ws, Lit(W_ec2), Ws, Lit(W_instances) >> ],
     [ name |-> "terminate_instance",
       pattern |-> << Lit(W_terminate), Ws, Lit(W_ec2), Ws, Lit(W_instance), Ws,
                      CapLit(<< "i", "-" >>), CapPlus(AlnumClass) >> ],
     [ name |-> "create_bucket",
       pattern |-> << Lit(W_create), Ws, Lit(W_s3), Ws, Lit(W_bucket), Ws,
                      CapPlus(BucketClass) >> ],
     [ name |-> "list_buckets",
       pattern |-> << Lit(W_list), Ws, Lit(W_s3), Ws, Lit(W_buckets) >> ] >>

(***************************************************************************)
(* Command (command.py).                                                   *)
(***************************************************************************)
\* the values of the enum CommandType
CommandType == { "aws", "system", "help", "exit" }

\* an Optional field: None, or a value
None == << >>

Some(x) == << x >>

\* the default of the dataclass field requires_approval
DefaultRequiresApproval == TRUE

\* Command.__post_init__: the value of requires_approval after construction
PostInit(type, requires_approval) ==
  IF type = "aws" THEN TRUE
  ELSE IF type = "help" THEN FALSE
  ELSE requires_approval

\* Command(type, service, action, parameters, requires_approval): the
\* generated __init__ followed by __post_init__; the approval fields keep
\* their defaults, as at every construction in the repository
NewCommand(type, service, action, parameters, requires_approval) ==
  [ type |-> type,
    service |-> service,
    action |-> action,
    parameters |-> parameters,
    requires_approval |-> PostInit(type, requires_approval),
    is_approved |-> FALSE,
    approved_at |-> None,
    approved_by |-> None ]

\* Approve, flipping the flag instead of setting it
ApproveToggles(c, approver, now) ==
  [ c EXCEPT !.is_approved = ~c.is_approved,
             !.approved_at = Some(now),
             !.approved_by = Some(approver) ]

\* Approve, also marking the command as no longer needing approval
ApproveClearsGate(c, approver, now) ==
  [ c EXCEPT !.requires_approval = FALSE,
             !.is_approved = TRUE,
             !.approved_at = Some(now),
             !.approved_by = Some(approver) ]

\* Approve, without the approver
ApproveForgetsApprover(c, approver, now) ==
  [ c EXCEPT !.is_approved = TRUE,
             !.approved_at = Some(now) ]

\* Approve, stamping the approval without setting the flag
ApproveKeepsPending(c, approver, now) ==
  [ c EXCEPT !.approved_at = Some(now),
             !.approved_by = Some(approver) ]

\* Command.approve(approver), datetime.now() reading `now`
Approve(c, approver, now) ==
  [ c EXCEPT !.is_approved = TRUE,
             !.approved_at = Some(now),
             !.approved_by = Some(approver) ]

\* Command.to_aws_command(), for a command of type aws
ToAwsCommand(c) ==
  [ service |-> c.service, action |-> c.action, parameters |-> c.parameters ]

(***************************************************************************)
(* Exceptions.  An exception is its class, its message, the text the       *)
(* message quotes, and the service and action it carries (if any).         *)
(***************************************************************************)
\* ValueError(f"Unknown command: {user_input}") (interface.py:73)
UnknownCommandError(text) ==
  [ class |-> "ValueError", message |-> "Unknown command: ", text |-> text,
    service |-> None, action |-> None ]

\* ValueError("Command must be approved before execution") (interface.py:128)
NotApprovedError ==
  [ class |-> "ValueError", message |-> "Command must be approved before execution",
    text |-> << >>, service |-> None, action |-> None ]

\* ValueError(f"Unknown command type: {command.type}") (interface.py:137)
UnknownTypeError ==
  [ class |-> "ValueError", message |-> "Unknown command type: ",
    text |-> << >>, service |-> None, action |-> None ]

\* what boto3 raises: from boto3.client, from getattr, from the method
BotoError(outcome) ==
  [ class |-> IF outcome = "NoMethod" THEN "AttributeError" ELSE "BotoError",
    message |-> outcome, text |-> << >>, service |-> None, action |-> None ]

\* `logger.error(...); raise` (interface.py:150-152): the same exception
Reraise(e) == e

(***************************************************************************)
(* CLIInterface.process_input and _get_command_config (interface.py).      *)
(***************************************************************************)
A_list_instances == W_list \o << "-" >> \o W_instances
A_terminate_instances == W_terminate \o << "-" >> \o W_instances
A_create_bucket == W_create \o << "-" >> \o W_bucket
A_list_buckets == W_list \o << "-" >> \o W_buckets

\* a dict is the set of its <<key, value>> items
EmptyDict == {}

\* _get_command_config(pattern_name, match)
GetCommandConfig(pattern_name, m) ==
  IF pattern_name = "list_instances"
    THEN [ service |-> "ec2", action |-> A_list_instances, parameters |-> EmptyDict ]
  ELSE IF pattern_name = "terminate_instance"
    THEN [ service |-> "ec2", action |-> A_terminate_instances,
           parameters |-> { << "InstanceIds", << m.group >> >> } ]
  ELSE IF pattern_name = "create_bucket"
    THEN [ service |-> "s3", action |-> A_create_bucket,
           parameters |-> { << "Bucket", m.group >> } ]
  ELSE [ service |-> "s3", action |-> A_list_buckets, parameters |-> EmptyDict ]

\* FirstMatch, with the loop starting at the second rule
FirstMatchFromSecond(s) ==
  LET hits == { i \in 2..Len(command_patterns) : Match(command_patterns[i].pattern, s).ok }
  IN  IF hits = {} THEN 0
      ELSE CHOOSE i \in hits : \A j \in hits : i <= j

\* the index of the first rule of the table that matches s, or 0
FirstMatch(s) ==
  LET hits == { i \in 1..Len(command_patterns) : Match(command_patterns[i].pattern, s).ok }
  IN  IF hits = {} THEN 0
      ELSE CHOOSE i \in hits : \A j \in hits : i <= j

\* HelpWords, without "?"
HelpWordsNoMark == { W_help }

\* ["help", "?"] (interface.py:47)
HelpWords == { W_help, << "?" >> }

\* ["exit", "quit"] (interface.py:55)
ExitWords == { W_exit, W_quit }

\* process_input(user_input): the Command it returns, or the ValueError it raises
ProcessInputResult(user_input) ==
  LET s == Lower(Strip(user_input))
      r == FirstMatch(s)
  IN  IF s \in HelpWords
        THEN [ ok |-> TRUE, text |-> s,
               command |-> NewCommand("help", "cli", W_help, EmptyDict, FALSE) ]
      ELSE IF s \in ExitWords
        THEN [ ok |-> TRUE, text |-> s,
               command |-> NewCommand("exit", "cli", W_exit, EmptyDict, FALSE) ]
      ELSE IF r # 0
        THEN LET cfg == GetCommandConfig(command_patterns[r].name,
                                         Match(command_patterns[r].pattern, s))
             IN  [ ok |-> TRUE, text |-> s,
                   command |-> NewCommand("aws", cfg.service, cfg.action,
                                          cfg.parameters, DefaultRequiresApproval) ]
      ELSE [ ok |-> FALSE, text |-> s, command |-> None ]

(***************************************************************************)
(* The lines a session types.                                              *)
(***************************************************************************)
SP == << " " >>

Inputs ==
  { W_help,
    SP \o << "Q", "U", "I", "T" >> \o SP,
    W_list \o SP \o W_s3 \o SP \o W_buckets,
    W_create \o SP \o W_s3 \o SP \o W_bucket \o SP \o << "b", "-", "1" >>,
    << "d", "o", " ", "i", "t" >> }

TAB == << "\t" >>

\* the lines given to process_input when it is exercised on its own
Lines ==
  { \* reserved literals
    W_help,
    << "?" >>,
    W_exit,
    W_quit,
    SP \o << "H", "E", "L", "P" >> \o SP,
    << "E", "x", "i", "t" >>,
    TAB \o W_quit,
    SP \o << "?" >>,
    \* the four forms of the grammar
    W_list \o SP \o W_ec2 \o SP \o W_instances,
    << "L", "I", "S", "T" >> \o SP \o SP \o << "E", "C", "2" >> \o TAB \o W_instances,
    W_terminate \o SP \o W_ec2 \o SP \o W_instance \o SP \o << "i", "-", "0", "a" >>,
    W_create \o SP \o W_s3 \o SP \o W_bucket \o SP \o << "b", "-", "1" >>,
    W_create \o SP \o W_s3 \o SP \o W_bucket \o SP \o SP \o << "B", "-", "1" >> \o SP,
    W_list \o SP \o W_s3 \o SP \o W_buckets,
    SP \o << "L", "i", "s", "t" >> \o SP \o << "S", "3" >> \o SP \o W_buckets \o SP,
    \* a form followed by more text
    W_list \o SP \o W_s3 \o SP \o W_buckets \o SP \o << "n", "o", "w" >>,
    W_create \o SP \o W_s3 \o SP \o W_bucket \o SP \o << "b", "_", "1" >>,
    \* neither
    << >>,
    << "d", "o", " ", "i", "t" >>,
    SP \o << "D", "o", " ", "I", "t" >> \o SP,
    W_list \o SP \o W_ec2,
    W_list \o SP \o W_s3 \o SP \o W_bucket,
    W_terminate \o SP \o W_ec2 \o SP \o W_instance \o SP \o << "x", "-", "1" >>,
    W_help \o SP \o << "m", "e" >> }

\* the arguments of direct constructions: the type, and requires_approval
\* passed as True, passed as False, or left out
CtorRequiresApproval == { "True", "False", "default" }

ArgValue(arg) ==
  IF arg = "True" THEN TRUE
  ELSE IF arg = "False" THEN FALSE
  ELSE DefaultRequiresApproval

\* process_input on every line of Inputs
InputResults == [ line \in Inputs \cup Lines |-> ProcessInputResult(line) ]

\* the service, action and parameters of a direct construction of a type
CtorArgs(type) ==
  IF type = "aws"
    THEN [ service |-> "s3", action |-> A_list_buckets, parameters |-> EmptyDict ]
  ELSE IF type = "help"
    THEN [ service |-> "cli", action |-> W_help, parameters |-> EmptyDict ]
  ELSE IF type = "exit"
    THEN [ service |-> "cli", action |-> W_exit, parameters |-> EmptyDict ]
  ELSE [ service |-> "cli", action |-> << "r", "u", "n" >>, parameters |-> EmptyDict ]

\* the identities of the people at the keyboard
Users == { "cli-user", "tester" }

(***************************************************************************)
(* State.                                                                  *)
(***************************************************************************)
VARIABLES
  cmds,             \* the Command objects created so far; index = identity
  command_history,  \* CLIInterface.command_history: identities of commands
  calls,            \* the boto3 method invocations made so far
  app,              \* the CLIApp: where run() is, self.running, and the
                    \* number of approval prompts answered yes
  ai,               \* the AICLI process: where main() is, what os.getenv
                    \* gave for GOOGLE_API_KEY, whether the agent exists,
                    \* its exit status, the lines it has read, and what it
                    \* printed last
  tasks,            \* asyncio tasks running approve_command: each task's
                    \* position and command, and the task the event loop runs
  last              \* the last operation: which, on which command, its outcome:
                    \*   input     the line given to process_input
                    \*   returned  the value execute_command returned
                    \*   response  the value the boto3 method returned
                    \*   error     the exception the operation raised
                    \*   recovering  the operation follows up a refused
                    \*               execute_command of the same command
                    \*   steps     what one _process_command did, in order
                    \*   shown     what the operation printed on the console

vars == << cmds, command_history, calls, app, ai, tasks, last >>

\* the state of the three programs around the CLIInterface
programs == << app, ai, tasks >>

Ids == 1..Len(cmds)

\* an operation and its outcome, with nothing returned and nothing raised
Outcome(op, cmd, result) ==
  [ op |-> op, cmd |-> cmd, result |-> result,
    input |-> None, returned |-> None, response |-> None, error |-> None,
    recovering |-> FALSE, steps |-> << >>, shown |-> "nothing" ]

\* the operation recorded in o is execute_command on i, refused by the approval check
Refused(o, i) ==
  o.op = "execute_command" /\ o.cmd = i /\ o.result = "NotApproved"

\* the operation recorded in o is the approve_command on i that followed a refusal
Reapproved(o, i) ==
  o.op = "approve_command" /\ o.cmd = i /\ o.recovering

NoOp == Outcome("init", 0, "none")

\* the asyncio tasks of a session
Tasks == 1..MaxTasks

\* CLIApp.__init__ (app.py:23-26), before run()
AppInit == [ pc |-> "init", running |-> FALSE, yes |-> 0 ]

\* the AICLI process before main()
AiInit ==
  [ pc |-> "start", key |-> "unread", agent |-> FALSE, status |-> None,
    read |-> << >>, shown |-> "nothing" ]

\* no task created yet; the event loop runs none
TasksInit ==
  [ pc |-> [ t \in Tasks |-> "idle" ], cmd |-> [ t \in Tasks |-> 0 ], owner |-> 0 ]

Init ==
  /\ cmds = << >>
  /\ command_history = << >>
  /\ calls = << >>
  /\ app = AppInit
  /\ ai = AiInit
  /\ tasks = TasksInit
  /\ last = NoOp

\* the readings datetime.now() can give: not before an earlier reading
Readings ==
  { t \in 0..MaxClock :
      \A i \in Ids : cmds[i].approved_at # None => cmds[i].approved_at[1] <= t }

(***************************************************************************)
(* Operations.                                                             *)
(***************************************************************************)
\* Created, with the new command also written over the latest object
CreatedOverLatest(objects, c) ==
  IF objects = << >> THEN << c >>
  ELSE Append([ objects EXCEPT ![Len(objects)] = c ], c)

\* `return Command(...)`: a new object, beside those that exist
Created(objects, c) == Append(objects, c)

\* process_input(line): a new Command object, or ValueError("Unknown command")
ProcessInput(line) ==
  LET r == InputResults[line]
  IN  /\ IF r.ok
           THEN /\ Len(cmds) < MaxCmds
                /\ cmds' = Created(cmds, r.command)
                /\ last' = [ Outcome("process_input", Len(cmds) + 1, "command")
                               EXCEPT !.input = Some(line) ]
           ELSE /\ cmds' = cmds
                /\ last' = [ Outcome("process_input", 0, "UnknownCommand")
                               EXCEPT !.input = Some(line),
                                      !.error = Some(UnknownCommandError(r.text)) ]
      /\ UNCHANGED << command_history, calls, programs >>

\* Command(type=..., service=..., action=..., parameters=..., [requires_approval=...])
Construct(type, arg) ==
  /\ Len(cmds) < MaxObjects
  /\ cmds' = Append(cmds, NewCommand(type, CtorArgs(type).service, CtorArgs(type).action,
                                      CtorArgs(type).parameters, ArgValue(arg)))
  /\ last' = Outcome("Command", Len(cmds) + 1, "command")
  /\ UNCHANGED << command_history, calls, programs >>

\* command.approve(approver), called on the object itself
ApproveDirect(i, approver, now) ==
  /\ cmds' = [ cmds EXCEPT ![i] = Approve(@, approver, now) ]
  /\ last' = Outcome("approve", i, "returned")
  /\ UNCHANGED << command_history, calls, programs >>

\* the approver approve_command stamps: a fixed string (interface.py:114)
ApproverOf(caller) == "cli-user"

\* ApprovalNotNeeded, with the early return left out
EarlyReturnOmitted(c) == FALSE

\* approve_command's early return (interface.py:111)
ApprovalNotNeeded(c) == ~c.requires_approval

\* HistoryAppend, appending the command twice
HistoryAppendTwice(history, i) == history \o << i, i >>

\* HistoryAppend, inserting at the front
HistoryInsertFront(history, i) == << i >> \o history

\* command_history.append(command) (interface.py:115)
HistoryAppend(history, i) == Append(history, i)

\* approve_command(command), with `caller` at the keyboard
ApproveCommand(i, caller, now) ==
  /\ IF ApprovalNotNeeded(cmds[i])
       THEN UNCHANGED << cmds, command_history >>
       ELSE /\ Len(command_history) < MaxHist
            /\ cmds' = [ cmds EXCEPT ![i] = Approve(@, ApproverOf(caller), now) ]
            /\ command_history' = HistoryAppend(command_history, i)
  /\ last' = [ Outcome("approve_command", i, "returned")
                 EXCEPT !.recovering = Refused(last, i) ]
  /\ UNCHANGED << calls, programs >>

\* ApprovalBlocked, letting through a command equal to one of the history
ApprovalBlockedUnlessInHistory(c) ==
  /\ c.requires_approval /\ ~c.is_approved
  /\ ~\E h \in 1..Len(command_history) :
        /\ cmds[command_history[h]].type = c.type
        /\ cmds[command_history[h]].service = c.service
        /\ cmds[command_history[h]].action = c.action
        /\ cmds[command_history[h]].parameters = c.parameters

\* ApprovalBlocked, with the check left out
ApprovalCheckOmitted(c) == FALSE

\* execute_command's approval check (interface.py:127)
ApprovalBlocked(c) == c.requires_approval /\ ~c.is_approved

\* str.replace("-", "_") on the action (interface.py:145)
BotoMethodName(action) ==
  [ k \in 1..Len(action) |-> IF action[k] = "-" THEN "_" ELSE action[k] ]

\* the outcomes of _execute_aws_command: boto3.client raises; getattr raises;
\* the method is invoked and raises; the method is invoked and returns
AwsOutcomes == { "ClientError", "NoMethod", "CallError", "payload" }

\* the method invocation of _execute_aws_command (interface.py:148-149)
BotoCall(i, c) ==
  LET aws_command == ToAwsCommand(c)
  IN  [ cmd |-> i,
        client |-> aws_command.service,
        method |-> BotoMethodName(aws_command.action),
        arguments |-> aws_command.parameters ]

\* the value the boto3 method returns for an invocation: the provider's own
Response(call) == [ of |-> call.method, body |-> "response" ]

\* Returned, dropping the value
ReturnsNothing(response) == None

\* `return method(**aws_command["parameters"])` (interface.py:149)
Returned(response) == Some(response)

\* Invoke, calling the method a second time
InvokeTwice(log, call) == log \o << call, call >>

\* `method(**aws_command["parameters"])` (interface.py:149): one invocation
Invoke(log, call) == Append(log, call)

\* _show_help() (interface.py:154-165)
HelpInfo == [ of |-> << >>, body |-> "available_commands" ]

\* what execute_command returns or raises when no boto3 call is involved
LocalResult(c) ==
  IF ApprovalBlocked(c) THEN "NotApproved"
  ELSE IF c.type = "help" THEN "help"
  ELSE IF c.type = "exit" THEN "None"
  ELSE "UnknownType"

\* the outcome of execute_command when no boto3 call is involved
LocalOutcome(i, c) ==
  LET result == LocalResult(c)
      o == Outcome("execute_command", i, result)
  IN  IF result = "NotApproved" THEN [ o EXCEPT !.error = Some(NotApprovedError) ]
      ELSE IF result = "help" THEN [ o EXCEPT !.returned = Some(HelpInfo) ]
      ELSE IF result = "None" THEN o
      ELSE [ o EXCEPT !.error = Some(UnknownTypeError) ]

\* the outcome of _execute_aws_command
AwsOutcome(i, c, outcome) ==
  LET o == Outcome("execute_command", i, outcome)
  IN  IF outcome = "payload"
        THEN [ o EXCEPT !.response = Some(Response(BotoCall(i, c))),
                        !.returned = Returned(Response(BotoCall(i, c))) ]
      ELSE IF outcome = "ClientError"
        THEN [ o EXCEPT !.error = Some(BotoError(outcome)) ]
      ELSE [ o EXCEPT !.error = Some(Reraise(BotoError(outcome))) ]

\* execute_command(command); `outcome` is what boto3 does if the command is
\* dispatched, and is fixed to one value on the paths that never reach boto3
ExecuteCommand(i, outcome) ==
  LET c == cmds[i]
  IN  /\ IF ~ApprovalBlocked(c) /\ c.type = "aws"
           THEN /\ last' = [ AwsOutcome(i, c, outcome)
                               EXCEPT !.recovering = Reapproved(last, i) ]
                /\ IF outcome \in { "CallError", "payload" }
                     THEN /\ Len(Invoke(calls, BotoCall(i, c))) <= MaxCalls
                          /\ calls' = Invoke(calls, BotoCall(i, c))
                     ELSE calls' = calls
           ELSE /\ outcome = "payload"
                /\ last' = [ LocalOutcome(i, c)
                               EXCEPT !.recovering = Reapproved(last, i) ]
                /\ calls' = calls
      /\ UNCHANGED << cmds, command_history, programs >>

\* a session of the CLIInterface: its three public operations
Next ==
  \/ \E line \in Inputs : ProcessInput(line)
  \/ \E i \in Ids, caller \in Users, now \in Readings : ApproveCommand(i, caller, now)
  \/ \E i \in Ids, outcome \in AwsOutcomes : ExecuteCommand(i, outcome)

Spec == Init /\ [][Next]_vars

\* the same, with Command objects also constructed and approved directly
NextApi ==
  \/ \E line \in Inputs :
       /\ InputResults[line].ok => Len(cmds) < MaxObjects
       /\ ProcessInput(line)
  \/ \E type \in CommandType, arg \in CtorRequiresApproval : Construct(type, arg)
  \/ \E i \in Ids, approver \in Users, now \in Readings : ApproveDirect(i, approver, now)
  \/ \E i \in Ids, caller \in Users, now \in Readings : ApproveCommand(i, caller, now)
  \/ \E i \in Ids, outcome \in AwsOutcomes : ExecuteCommand(i, outcome)

SpecApi == Init /\ [][NextApi]_vars

(***************************************************************************)
(* CLIApp (app.py): run() and _process_command.                            *)
(***************************************************************************)
\* what Confirm.ask gives at the approval prompt (app.py:90)
Answers == { "yes", "no", "KeyboardInterrupt" }

\* what console.input can raise instead of returning a line (app.py:137)
InputErrors == { "KeyboardInterrupt", "EOFError" }

\* an exception raised by the console
ConsoleError(class) ==
  [ class |-> class, message |-> "console", text |-> << >>,
    service |-> None, action |-> None ]

\* IsExit, taking HELP for EXIT as well
IsExitOrHelp(c) == c.type \in { "exit", "help" }

\* `command.type == CommandType.EXIT` (app.py:104)
IsExit(c) == c.type = "exit"

\* `command.type == CommandType.HELP` (app.py:108)
IsHelp(c) == c.type = "help"

\* `command.requires_approval` (app.py:114)
NeedsApproval(c) == c.requires_approval

\* Declined, with the test inverted
DeclinedInverted(answer) == answer = "yes"

\* Declined, never true
DeclinedNever(answer) == FALSE

\* `not await self._get_user_approval(command)` (app.py:115)
Declined(answer) == answer = "no"

\* CaughtByProcessCommand, catching ValueError only
CaughtOnlyValueError(e) == e.class = "ValueError"

\* `except Exception` (app.py:124): every exception but KeyboardInterrupt
CaughtByProcessCommand(e) == e.class # "KeyboardInterrupt"

\* approve_command(command) on the state (history, command c with identity i)
ApproveCommandResult(history, c, i, caller, now) ==
  IF ApprovalNotNeeded(c)
    THEN [ history |-> history, command |-> c, done |-> TRUE ]
    ELSE [ history |-> HistoryAppend(history, i),
           command |-> Approve(c, ApproverOf(caller), now),
           done |-> TRUE ]

\* execute_command(command): its outcome and the calls after it
ExecuteCommandResult(log, c, i, outcome) ==
  IF ~ApprovalBlocked(c) /\ c.type = "aws"
    THEN [ outcome |-> AwsOutcome(i, c, outcome),
           calls |-> IF outcome \in { "CallError", "payload" }
                       THEN Invoke(log, BotoCall(i, c))
                       ELSE log ]
    ELSE [ outcome |-> LocalOutcome(i, c), calls |-> log ]

\* `except Exception as e` (app.py:124-128) on exception e, raised in
\* `state` after what `o` tells; an exception it does not catch leaves
\* _process_command
Handled(state, o, e) ==
  IF CaughtByProcessCommand(e)
    THEN [ state |-> state,
           out |-> [ o EXCEPT !.error = Some(e), !.shown = "Error",
                              !.returned = Some(TRUE) ] ]
    ELSE [ state |-> state, out |-> [ o EXCEPT !.error = Some(e) ] ]

\* _process_command(user_input), from the call to its return or to the
\* exception that leaves it: the commands, history and calls after it, the
\* prompts answered yes, and what it did, printed, returned and raised;
\* r is what process_input gives for the line
ProcessCommand(line, r, answer, now, outcome) ==
  LET i == Len(cmds) + 1
      base == [ Outcome("_process_command", 0, "none") EXCEPT !.input = Some(line) ]
      same == [ cmds |-> cmds, history |-> command_history, calls |-> calls, yes |-> 0 ]
  IN  IF ~r.ok
        THEN Handled(same,
                     [ base EXCEPT !.result = "UnknownCommand",
                                   !.steps = << "process_input" >> ],
                     UnknownCommandError(r.text))
      ELSE
        LET c == r.command
            created == [ same EXCEPT !.cmds = Created(cmds, c) ]
            parsed == [ base EXCEPT !.cmd = i, !.steps = << "process_input" >> ]
        IN  IF IsExit(c)
              THEN [ state |-> created,
                     out |-> [ parsed EXCEPT !.result = "exit",
                                             !.returned = Some(FALSE) ] ]
            ELSE IF IsHelp(c)
              THEN LET x == ExecuteCommandResult(calls, c, i, outcome)
                       o == [ parsed EXCEPT !.result = x.outcome.result,
                                            !.steps = @ \o << "execute_command" >> ]
                   IN  IF x.outcome.error # None
                         THEN Handled(created, o, x.outcome.error[1])
                         ELSE [ state |-> created,
                                out |-> [ o EXCEPT !.shown = "help",
                                                   !.returned = Some(TRUE) ] ]
            ELSE IF NeedsApproval(c) /\ answer = "KeyboardInterrupt"
              THEN Handled(created,
                           [ parsed EXCEPT !.result = "KeyboardInterrupt",
                                           !.steps = @ \o << "prompt" >> ],
                           ConsoleError("KeyboardInterrupt"))
            ELSE IF NeedsApproval(c) /\ Declined(answer)
              THEN [ state |-> created,
                     out |-> [ parsed EXCEPT !.result = "cancelled",
                                             !.steps = @ \o << "prompt", answer >>,
                                             !.shown = "cancelled",
                                             !.returned = Some(TRUE) ] ]
            ELSE
              LET a == IF NeedsApproval(c)
                         THEN ApproveCommandResult(command_history, c, i, "cli-user", now)
                         ELSE [ history |-> command_history, command |-> c, done |-> FALSE ]
                  x == ExecuteCommandResult(calls, a.command, i, outcome)
                  state == [ cmds |-> Created(cmds, a.command),
                             history |-> a.history,
                             calls |-> x.calls,
                             yes |-> IF NeedsApproval(c) /\ answer = "yes" THEN 1 ELSE 0 ]
                  o == [ parsed EXCEPT
                           !.result = x.outcome.result,
                           !.response = x.outcome.response,
                           !.steps = @ \o (IF NeedsApproval(c)
                                             THEN << "prompt", answer, "approve_command" >>
                                             ELSE << >>)
                                      \o << "execute_command" >>
                                      \o (IF x.calls # calls THEN << "call" >> ELSE << >>) ]
              IN  IF x.outcome.error # None
                    THEN Handled(state, o, x.outcome.error[1])
                    ELSE [ state |-> state,
                           out |-> [ o EXCEPT !.shown = "result",
                                              !.returned = Some(TRUE) ] ]

\* run() up to its loop (app.py:132-133)
AppRun ==
  /\ app.pc = "init"
  /\ app' = [ app EXCEPT !.pc = "loop", !.running = TRUE ]
  /\ last' = [ Outcome("run", 0, "started") EXCEPT !.shown = "welcome" ]
  /\ UNCHANGED << cmds, command_history, calls, ai, tasks >>

\* the command makes _process_command show the approval prompt
Prompted(r) ==
  r.ok /\ ~IsExit(r.command) /\ ~IsHelp(r.command) /\ NeedsApproval(r.command)

\* one turn of run()'s loop in which console.input returns a line
\* (app.py:135-143), and the end of run() when that turn clears self.running;
\* an answer, a clock reading or a boto3 outcome that the turn does not
\* read has one fixed value
AppLine(line, answer, now, outcome) ==
  \E r \in { InputResults[line] } :
    /\ app.pc = "loop" /\ app.running
    /\ ~Prompted(r) => answer = "yes"
    /\ ~(Prompted(r) /\ answer = "yes")
         => outcome = "payload" /\ \A t \in Readings : t <= now
    /\ \E p \in { ProcessCommand(line, r, answer, now, outcome) } :
      /\ Len(p.state.cmds) <= MaxCmds
      /\ Len(p.state.history) <= MaxHist
      /\ Len(p.state.calls) <= MaxCalls
      /\ cmds' = p.state.cmds
      /\ command_history' = p.state.history
      /\ calls' = p.state.calls
      /\ IF p.out.returned # None
           THEN \* `self.running = await self._process_command(user_input)`
                /\ app' = [ app EXCEPT !.running = p.out.returned[1],
                                       !.pc = IF p.out.returned[1] THEN "loop" ELSE "done",
                                       !.yes = @ + p.state.yes ]
                /\ last' = IF p.out.returned[1] THEN p.out
                           ELSE [ p.out EXCEPT !.shown = "Goodbye" ]
           ELSE \* `except KeyboardInterrupt` / `except Exception` (app.py:139-143)
                /\ app' = [ app EXCEPT !.yes = @ + p.state.yes ]
                /\ last' = [ p.out EXCEPT
                               !.shown = IF p.out.error[1].class = "KeyboardInterrupt"
                                           THEN "Use exit to quit"
                                           ELSE "Unexpected error" ]
      /\ UNCHANGED << ai, tasks >>

\* one turn of run()'s loop in which console.input raises (app.py:137-143)
AppInputFails(class) ==
  /\ app.pc = "loop" /\ app.running
  /\ last' = [ Outcome("run", 0, class) EXCEPT
                 !.error = Some(ConsoleError(class)),
                 !.shown = IF class = "KeyboardInterrupt"
                             THEN "Use exit to quit"
                             ELSE "Unexpected error" ]
  /\ UNCHANGED << cmds, command_history, calls, app, ai, tasks >>

\* a session of the CLIApp
NextApp ==
  \/ AppRun
  \/ \E line \in Inputs, answer \in Answers, now \in Readings, outcome \in AwsOutcomes :
       AppLine(line, answer, now, outcome)
  \/ \E class \in InputErrors : AppInputFails(class)

SpecApp == Init /\ [][NextApp]_vars

(***************************************************************************)
(* approve_command run by several asyncio tasks on one CLIInterface.  A    *)
(* task is at one of the statements of approve_command; the event loop     *)
(* runs one task at a time, and passes to another only when the running    *)
(* task awaits or ends.                                                    *)
(***************************************************************************)
\* AwaitPoints, with an await before the append
AwaitsBeforeAppend == { "append" }

\* the statements of approve_command before which the coroutine awaits:
\* its body has no await (interface.py:104-115)
AwaitPoints == {}

\* the statement that follows `at` in approve_command, for command c
NextStatement(at, c) ==
  IF at = "check"
    THEN IF ApprovalNotNeeded(c) THEN "done" ELSE "approve"
  ELSE IF at = "approve" THEN "append"
  ELSE "done"

\* asyncio.create_task(cli.approve_command(command)): the task is scheduled
TaskStart(t, i) ==
  /\ tasks.owner = 0
  /\ tasks.pc[t] = "idle"
  /\ tasks' = [ tasks EXCEPT !.pc[t] = "check", !.cmd[t] = i ]
  /\ last' = Outcome("create_task", i, "scheduled")
  /\ UNCHANGED << cmds, command_history, calls, app, ai >>

\* the event loop runs the next statement of task t
TaskStep(t, now) ==
  LET at == tasks.pc[t]
      i == tasks.cmd[t]
      to == NextStatement(at, cmds[i])
  IN  /\ at \in { "check", "approve", "append" }
      /\ tasks.owner \in { 0, t }
      /\ IF at = "approve"
           THEN cmds' = [ cmds EXCEPT ![i] = Approve(@, ApproverOf("cli-user"), now) ]
           ELSE cmds' = cmds
      /\ IF at = "append"
           THEN /\ Len(command_history) < MaxHist
                /\ command_history' = HistoryAppend(command_history, i)
           ELSE command_history' = command_history
      /\ tasks' = [ tasks EXCEPT !.pc[t] = to,
                                 !.owner = IF to = "done" \/ to \in AwaitPoints
                                             THEN 0 ELSE t ]
      /\ last' = Outcome("approve_command", i, at)
      /\ UNCHANGED << calls, app, ai >>

\* commands are created, and approved by tasks
NextTasks ==
  \/ \E line \in Inputs : tasks.owner = 0 /\ ProcessInput(line)
  \/ \E t \in Tasks, i \in Ids : TaskStart(t, i)
  \/ \E t \in Tasks, now \in Readings : TaskStep(t, now)

SpecTasks == Init /\ [][NextTasks]_vars

(***************************************************************************)
(* The AI CLI (ai_cli.py): main(), AICLI.__init__ and AICLI.run.           *)
(***************************************************************************)
\* what os.getenv('GOOGLE_API_KEY') gives after load_dotenv(): None, "", a key
AiKeys == { "none", "empty", "key" }

\* what AWSAIAgent(api_key) does (ai_cli.py:34)
AgentOutcomes == { "agent", "raises" }

\* KeyMissing, never true
KeyMissingNever(key) == FALSE

\* `not api_key` (ai_cli.py:30)
KeyMissing(key) == key \in { "none", "empty" }

\* the lines typed to the AI CLI
AiLines ==
  { W_exit,
    << "E", "X", "I", "T" >>,
    W_help,
    SP \o W_exit,
    << "d", "o", " ", "i", "t" >> }

\* what agent.process_message gives: a response with "error", a response
\* of one of the actions, or an exception
AiResponses == { "error", "audit", "generate_terraform", "other", "raises" }

\* main() up to the loop of run() (ai_cli.py:143-150, 23-34, 97-99)
AiMain(key, agent) ==
  /\ ai.pc = "start"
  /\ ~KeyMissing(key) \/ agent = "agent"
  /\ IF KeyMissing(key) \/ agent = "raises"
       THEN \* ValueError, or the agent's exception: `except Exception` in
            \* main prints and calls sys.exit(1)
            ai' = [ ai EXCEPT !.pc = "exited", !.key = key,
                              !.status = Some(1), !.shown = "Fatal error" ]
       ELSE ai' = [ ai EXCEPT !.pc = "loop", !.key = key, !.agent = TRUE,
                              !.shown = "welcome" ]
  /\ last' = Outcome("main", 0, IF KeyMissing(key) \/ agent = "raises"
                                  THEN "Fatal error" ELSE "started")
  /\ UNCHANGED << cmds, command_history, calls, app, tasks >>

\* one turn of the loop of run() in which console.input returns a line
\* (ai_cli.py:101-138), and the end of main() when the line is exit
AiLine(line, response) ==
  /\ ai.pc = "loop"
  /\ Len(ai.read) < MaxRead
  /\ Lower(line) \in { W_exit, W_help } => response = "other"
  /\ ai' = [ ai EXCEPT
               !.read = Append(@, line),
               !.pc = IF Lower(line) = W_exit THEN "exited" ELSE "loop",
               !.status = IF Lower(line) = W_exit THEN Some(0) ELSE None,
               !.shown = IF Lower(line) = W_exit THEN "Goodbye"
                         ELSE IF Lower(line) = W_help THEN "commands"
                         ELSE IF response = "raises" THEN "An error occurred"
                         ELSE IF response = "error" THEN "Error"
                         ELSE response ]
  /\ last' = [ Outcome("run", 0, IF Lower(line) = W_exit THEN "exit" ELSE "read")
                 EXCEPT !.input = Some(line) ]
  /\ UNCHANGED << cmds, command_history, calls, app, tasks >>

\* one turn of the loop in which console.input raises (ai_cli.py:135-138)
AiInputFails(class) ==
  /\ ai.pc = "loop"
  /\ ai' = [ ai EXCEPT !.shown = IF class = "KeyboardInterrupt"
                                   THEN "Use exit to quit"
                                   ELSE "An error occurred" ]
  /\ last' = [ Outcome("run", 0, class) EXCEPT !.error = Some(ConsoleError(class)) ]
  /\ UNCHANGED << cmds, command_history, calls, app, tasks >>

\* a run of the AI CLI
NextAi ==
  \/ \E key \in AiKeys, agent \in AgentOutcomes : AiMain(key, agent)
  \/ \E line \in AiLines, response \in AiResponses : AiLine(line, response)
  \/ \E class \in InputErrors : AiInputFails(class)

SpecAi == Init /\ [][NextAi]_vars

\* process_input on its own, on the lines of Lines
NextParse == \E line \in Lines : ProcessInput(line)

SpecParse == Init /\ [][NextParse]_vars

(***************************************************************************)
(* Properties.                                                             *)
(***************************************************************************)
\* the step is execute_command on command i
IsExecute(i) == last'.op = "execute_command" /\ last'.cmd = i

\* the step is approve_command on command i
IsApproveCommand(i) == last'.op = "approve_command" /\ last'.cmd = i

GatedUnapproved(c) == c.requires_approval /\ ~c.is_approved

InHistory(i) == \E h \in 1..Len(command_history) : command_history[h] = i

C1_BlockedStep ==
  \A i \in Ids :
    IsExecute(i) /\ GatedUnapproved(cmds[i])
      => last'.result = "NotApproved" /\ calls' = calls

C1_CallsApproved ==
  \A k \in 1..Len(calls) :
    cmds[calls[k].cmd].requires_approval
      => cmds[calls[k].cmd].is_approved /\ InHistory(calls[k].cmd)

\* C1: execute_command on a command that requires approval and is not
\* approved raises the not-approved error and invokes no boto3 method; every
\* boto3 call recorded for a gated command was made after an approve_command
\* of that same command.
C1_NoCallBeforeApprove == [][C1_BlockedStep]_vars /\ []C1_CallsApproved

C1_Witness ==
  \E i \in Ids :
    /\ last.op = "execute_command" /\ last.cmd = i /\ last.result = "NotApproved"
    /\ GatedUnapproved(cmds[i])
    /\ \E k \in 1..Len(calls) : calls[k].cmd # i

\* C2: execute_command is blocked by the approval check exactly when
\* requires_approval is true and is_approved is false, for every kind; and a
\* HELP or EXIT command that was never approved executes successfully.
C2_PermittedIff ==
  [][ \A i \in Ids :
        IsExecute(i)
          => /\ (last'.result = "NotApproved") <=> GatedUnapproved(cmds[i])
             /\ (cmds[i].type \in { "help", "exit" } /\ ~cmds[i].is_approved)
                  => last'.result \in { "help", "None" } ]_vars

\* C3: a constructed command has requires_approval = true when its kind is
\* AWS and requires_approval = false when its kind is HELP or EXIT, whatever
\* value the constructor was given.
C3_RequiresApprovalByKind ==
  \A i \in Ids :
    /\ cmds[i].type = "aws" => cmds[i].requires_approval
    /\ cmds[i].type \in { "help", "exit" } => ~cmds[i].requires_approval

\* C4: approve_command on an already approved command appends nothing to the
\* history and leaves approved_at and approved_by as the first call set them.
C4_SecondApproveNoOp ==
  [][ \A i \in Ids :
        IsApproveCommand(i) /\ cmds[i].is_approved
          => /\ command_history' = command_history
             /\ cmds'[i].approved_at = cmds[i].approved_at
             /\ cmds'[i].approved_by = cmds[i].approved_by ]_vars

\* C5: approve_command on a gated command that is not approved sets
\* is_approved, records the identity of its caller in approved_by, and
\* appends the command to the history.
C5_ApproveRecordsCaller ==
  [][ \A i \in Ids, caller \in Users, now \in Readings :
        ApproveCommand(i, caller, now) /\ GatedUnapproved(cmds[i])
          => /\ cmds'[i].is_approved
             /\ cmds'[i].approved_by = Some(caller)
             /\ command_history' = Append(command_history, i) ]_vars

\* C6: once is_approved is true no operation sets it back to false (so it
\* goes from false to true at most once per command).
C6_ApprovalMonotone ==
  [][ \A i \in Ids :
        cmds[i].is_approved => i \in DOMAIN cmds' /\ cmds'[i].is_approved ]_vars

C6_Witness ==
  \E i \in Ids :
    /\ cmds[i].is_approved
    /\ last.op = "execute_command" /\ last.cmd = i
    /\ command_history = << i, i >>

\* C7: approve_command on a command whose requires_approval is false leaves
\* the command, its approval fields and the history unchanged.
C7_UngatedApproveNoOp ==
  [][ \A i \in Ids :
        IsApproveCommand(i) /\ ~cmds[i].requires_approval
          => cmds' = cmds /\ command_history' = command_history ]_vars

C7_Witness ==
  /\ last.op = "approve_command"
  /\ ~cmds[last.cmd].requires_approval
  /\ ~cmds[last.cmd].is_approved
  /\ command_history = << >>

\* C8: no operation changes the requires_approval, type, service, action or
\* parameters of an existing command.
C8_FieldsFixed ==
  [][ \A i \in Ids :
        /\ i \in DOMAIN cmds'
        /\ cmds'[i].requires_approval = cmds[i].requires_approval
        /\ cmds'[i].type = cmds[i].type
        /\ cmds'[i].service = cmds[i].service
        /\ cmds'[i].action = cmds[i].action
        /\ cmds'[i].parameters = cmds[i].parameters ]_vars

C8_Witness ==
  \E i \in Ids :
    /\ cmds[i].requires_approval
    /\ cmds[i].approved_by = Some("tester")
    /\ InHistory(i)
    /\ \E k \in 1..Len(calls) : calls[k].cmd = i
    /\ last.op = "execute_command"

C9_HistoryApproved ==
  \A h \in 1..Len(command_history) :
    /\ cmds[command_history[h]].is_approved
    /\ cmds[command_history[h]].requires_approval

C9_AppendStep ==
  \/ command_history' = command_history
  \/ \E i \in Ids :
       /\ IsApproveCommand(i)
       /\ command_history' = Append(command_history, i)
       /\ \A j \in Ids :
            cmds'[j].is_approved => cmds'[j].approved_at[1] <= cmds'[i].approved_at[1]

\* C9: every element of command_history is approved and requires approval;
\* every step leaves the history alone or appends to it the command that
\* approve_command has just approved, so the old history is a prefix of the
\* new one and the order is the order of the approvals.
C9_HistoryAppendOnly == []C9_HistoryApproved /\ [][C9_AppendStep]_vars

C9_Witness ==
  /\ Len(command_history) = 2
  /\ command_history[1] # command_history[2]

\* C10: a command has is_approved = true if and only if approved_at is set,
\* if and only if approved_by is set.
C10_StampWithApproval ==
  \A i \in Ids :
    /\ cmds[i].is_approved <=> cmds[i].approved_at # None
    /\ cmds[i].is_approved <=> cmds[i].approved_by # None

C10_Witness ==
  \E i \in Ids, j \in Ids :
    /\ cmds[i].is_approved /\ cmds[i].approved_at # None /\ cmds[i].approved_by # None
    /\ GatedUnapproved(cmds[j]) /\ cmds[j].approved_at = None
    /\ last.op = "execute_command"

\* two commands carry the same request
SameRequest(c, d) ==
  /\ c.type = d.type /\ c.service = d.service
  /\ c.action = d.action /\ c.parameters = d.parameters

\* C11: on every execute_command, in every state (so for every content of
\* command_history), the command is refused exactly when its own
\* requires_approval is true and its own is_approved is false, and the
\* history is left as it was: two runs that differ only in the history give
\* the same permitted/blocked outcome.
C11_HistoryNotConsulted ==
  [][ \A i \in Ids :
        IsExecute(i)
          => /\ (last'.result = "NotApproved")
                  <=> (cmds[i].requires_approval /\ ~cmds[i].is_approved)
             /\ command_history' = command_history ]_vars

C11_Witness ==
  \E i \in Ids, j \in Ids :
    /\ i # j /\ SameRequest(cmds[i], cmds[j])
    /\ cmds[i].is_approved /\ InHistory(i)
    /\ GatedUnapproved(cmds[j]) /\ ~InHistory(j)
    /\ Refused(last, j)

C12_FailedAttemptChangesNothing(i) ==
  last'.result = "NotApproved"
    => cmds' = cmds /\ command_history' = command_history /\ calls' = calls

\* C12 as stated: a refused execute_command changes no command, nor the
\* history, nor the calls made; and the execute_command that follows the
\* approve_command of the refused command succeeds, with exactly one boto3
\* call, carrying the command's parameters.
C12_RecoveredSucceeds ==
  [][ \A i \in Ids :
        IsExecute(i)
          => /\ C12_FailedAttemptChangesNothing(i)
             /\ Reapproved(last, i)
                  => /\ last'.result = "payload"
                     /\ Len(calls') = Len(calls) + 1
                     /\ calls'[Len(calls')].arguments = cmds[i].parameters ]_vars

\* C12, amended: a refused execute_command changes no command, nor the
\* history, nor the calls made; and execute_command on a command that
\* approve_command has approved (after a refusal or not) is not refused, and
\* makes exactly one boto3 call, carrying the command's parameters, when
\* boto3 provides the client and the method; it succeeds when that call returns.
C12_Recoverable ==
  [][ \A i \in Ids :
        IsExecute(i)
          => /\ C12_FailedAttemptChangesNothing(i)
             /\ InHistory(i)
                  => /\ last'.result \in AwsOutcomes
                     /\ last'.result \in { "CallError", "payload" }
                          => /\ Len(calls') = Len(calls) + 1
                             /\ SubSeq(calls', 1, Len(calls)) = calls
                             /\ calls'[Len(calls')].cmd = i
                             /\ calls'[Len(calls')].arguments = cmds[i].parameters
                     /\ last'.result \in { "ClientError", "NoMethod" }
                          => calls' = calls ]_vars

C12_Witness ==
  \E i \in Ids :
    /\ last.op = "execute_command" /\ last.cmd = i
    /\ last.recovering /\ last.result = "payload"
    /\ Len(calls) = 1 /\ calls[1].cmd = i
    /\ calls[1].arguments = cmds[i].parameters
    /\ cmds[i].parameters # EmptyDict

\* the command passes execute_command's approval check and is a service call
C13_Dispatched(c) == c.type = "aws" /\ ~GatedUnapproved(c)

\* C13 as stated: execute_command on a service-call command that passes the
\* approval check makes exactly one boto3 method invocation, whether it
\* succeeds or fails; on a HELP or EXIT command it makes none.
C13_ExactlyOneCall ==
  [][ \A i \in Ids :
        IsExecute(i)
          => /\ C13_Dispatched(cmds[i])
                  => /\ Len(calls') = Len(calls) + 1
                     /\ SubSeq(calls', 1, Len(calls)) = calls
             /\ cmds[i].type \in { "help", "exit" } => calls' = calls ]_vars

\* C13, amended: execute_command on a service-call command that passes the
\* approval check makes at most one boto3 method invocation: exactly one
\* when boto3.client and the method lookup succeed, whether the invocation
\* returns or raises, and none when either of them raises; on a HELP or EXIT
\* command, and on a refused command, it makes none.
C13_AtMostOneCall ==
  [][ \A i \in Ids :
        IsExecute(i)
          => /\ C13_Dispatched(cmds[i])
                  => /\ last'.result \in AwsOutcomes
                     /\ last'.result \in { "CallError", "payload" }
                          => /\ Len(calls') = Len(calls) + 1
                             /\ SubSeq(calls', 1, Len(calls)) = calls
                             /\ calls'[Len(calls')].cmd = i
                     /\ last'.result \in { "ClientError", "NoMethod" }
                          => calls' = calls
             /\ ~C13_Dispatched(cmds[i]) => calls' = calls ]_vars

C13_Witness ==
  \E i \in Ids, j \in Ids :
    /\ last.op = "execute_command" /\ last.cmd = i /\ last.result = "CallError"
    /\ C13_Dispatched(cmds[i])
    /\ Len(calls) = 1 /\ calls[1].cmd = i
    /\ cmds[j].type \in { "help", "exit" }

\* C14: when the boto3 method raises, execute_command raises a
\* DispatchFailure that carries the command's service and action, and the
\* method is not invoked again.
C14_DispatchFailure ==
  [][ \A i \in Ids :
        IsExecute(i) /\ last'.result = "CallError"
          => /\ last'.error # None
             /\ last'.error[1].class = "DispatchFailure"
             /\ last'.error[1].service = Some(cmds[i].service)
             /\ last'.error[1].action = Some(cmds[i].action)
             /\ Len(calls') = Len(calls) + 1 ]_vars

\* C15: after execute_command has succeeded on a command, a further
\* execute_command on that command makes no boto3 call.
C15_ConsumedOnce ==
  [][ \A i \in Ids :
        /\ last.op = "execute_command" /\ last.cmd = i /\ last.result = "payload"
        /\ IsExecute(i)
        => calls' = calls ]_vars

\* the boto3 method an action names
C16_MethodFor(action) ==
  IF action = W_create \o << "-" >> \o W_bucket
    THEN W_create \o << "_" >> \o W_bucket
  ELSE IF action = W_list \o << "-" >> \o W_buckets
    THEN W_list \o << "_" >> \o W_buckets
  ELSE IF action = W_list \o << "-" >> \o W_instances
    THEN W_list \o << "_" >> \o W_instances
  ELSE IF action = W_terminate \o << "-" >> \o W_instances
    THEN W_terminate \o << "_" >> \o W_instances
  ELSE << >>

\* C16: when execute_command succeeds on a service-call command, the value
\* it returns is the value the boto3 method returned, and the one call it
\* made is on the client of command.service, of the method command.action
\* names, with exactly command.parameters as arguments.
C16_PayloadAndCall ==
  [][ \A i \in Ids :
        IsExecute(i) /\ last'.result = "payload"
          => /\ last'.response # None
             /\ last'.returned = last'.response
             /\ Len(calls') = Len(calls) + 1
             /\ SubSeq(calls', 1, Len(calls)) = calls
             /\ calls'[Len(calls')].cmd = i
             /\ calls'[Len(calls')].client = cmds[i].service
             /\ calls'[Len(calls')].method = C16_MethodFor(cmds[i].action)
             /\ calls'[Len(calls')].arguments = cmds[i].parameters
             /\ last'.response[1].of = calls'[Len(calls')].method ]_vars

C16_Witness ==
  \E i \in Ids :
    /\ last.op = "execute_command" /\ last.cmd = i /\ last.result = "payload"
    /\ last.returned = Some([ of |-> W_create \o << "_" >> \o W_bucket,
                              body |-> "response" ])
    /\ calls[Len(calls)].client = "s3"
    /\ calls[Len(calls)].arguments = { << "Bucket", << "b", "-", "1" >> >> }

\* lines that, trimmed and lower-cased, are help or ?
C17_HelpLines ==
  { W_help, << "?" >>, SP \o << "H", "E", "L", "P" >> \o SP, SP \o << "?" >> }

\* lines that, trimmed and lower-cased, are exit or quit
C17_ExitLines ==
  { W_exit, W_quit, << "E", "x", "i", "t" >>, TAB \o W_quit }

C17_Reserved(type) ==
  /\ last.result = "command"
  /\ cmds[last.cmd].type = type
  /\ ~cmds[last.cmd].requires_approval
  /\ ~cmds[last.cmd].is_approved
  /\ cmds[last.cmd].service \notin { "ec2", "s3" }
  /\ cmds[last.cmd].parameters = EmptyDict

\* C17: for a line that, trimmed and lower-cased, is help or ?,
\* process_input returns a HELP command, and for exit or quit an EXIT
\* command, each with requires_approval = false and is_approved = false and
\* nothing of a grammar rule in it.
C17_ReservedFirst ==
  last.op = "process_input"
    => /\ last.input[1] \in C17_HelpLines => C17_Reserved("help")
       /\ last.input[1] \in C17_ExitLines => C17_Reserved("exit")

C17_Witness ==
  /\ Len(cmds) = 2
  /\ last.op = "process_input" /\ last.input = Some(SP \o << "?" >>)
  /\ last.cmd = 2 /\ cmds[2].type = "help"
  /\ cmds[1].type = "exit"

\* the four forms, each with the triple of its rule
C18_Forms ==
  { [ line |-> W_list \o SP \o W_ec2 \o SP \o W_instances,
      service |-> "ec2",
      action |-> W_list \o << "-" >> \o W_instances,
      parameters |-> {} ],
    [ line |-> W_terminate \o SP \o W_ec2 \o SP \o W_instance \o SP \o << "i", "-", "0", "a" >>,
      service |-> "ec2",
      action |-> W_terminate \o << "-" >> \o W_instances,
      parameters |-> { << "InstanceIds", << << "i", "-", "0", "a" >> >> >> } ],
    [ line |-> W_create \o SP \o W_s3 \o SP \o W_bucket \o SP \o << "b", "-", "1" >>,
      service |-> "s3",
      action |-> W_create \o << "-" >> \o W_bucket,
      parameters |-> { << "Bucket", << "b", "-", "1" >> >> } ],
    [ line |-> W_list \o SP \o W_s3 \o SP \o W_buckets,
      service |-> "s3",
      action |-> W_list \o << "-" >> \o W_buckets,
      parameters |-> {} ] }

\* C18: for each of the four forms process_input returns a service-call
\* command with requires_approval = true, is_approved = false and the
\* service, action and parameters of the form's rule.
C18_FormTriples ==
  \A f \in C18_Forms :
    last.op = "process_input" /\ last.input = Some(f.line)
      => /\ last.result = "command"
         /\ cmds[last.cmd].type = "aws"
         /\ cmds[last.cmd].requires_approval
         /\ ~cmds[last.cmd].is_approved
         /\ cmds[last.cmd].service = f.service
         /\ cmds[last.cmd].action = f.action
         /\ cmds[last.cmd].parameters = f.parameters

C18_Witness ==
  /\ Len(cmds) = 2
  /\ last.op = "process_input" /\ last.cmd = 2
  /\ last.input = Some(W_terminate \o SP \o W_ec2 \o SP \o W_instance \o SP
                         \o << "i", "-", "0", "a" >>)
  /\ cmds[2].parameters = { << "InstanceIds", << << "i", "-", "0", "a" >> >> >> }
  /\ cmds[1].service = "s3" /\ cmds[1].parameters # {}

\* lines that are neither a reserved literal nor a form of the grammar
C19_Unmatched ==
  { << >>,
    << "d", "o", " ", "i", "t" >>,
    SP \o << "D", "o", " ", "I", "t" >> \o SP,
    W_list \o SP \o W_ec2,
    W_list \o SP \o W_s3 \o SP \o W_bucket,
    W_terminate \o SP \o W_ec2 \o SP \o W_instance \o SP \o << "x", "-", "1" >>,
    W_help \o SP \o << "m", "e" >> }

\* C19: for a line that is neither a reserved literal nor a form of the
\* grammar, process_input raises the unknown-command error, whose text is
\* the line exactly as given, and no command is created or recorded.
C19_CarriesInputVerbatim ==
  [][ \A line \in C19_Unmatched :
        last'.op = "process_input" /\ last'.input = Some(line)
          => /\ last'.result = "UnknownCommand"
             /\ last'.error # None
             /\ last'.error[1].text = line
             /\ cmds' = cmds
             /\ command_history' = command_history ]_vars

\* the rules of the table that match s
C20_Hits(s) ==
  { k \in 1..Len(command_patterns) : Match(command_patterns[k].pattern, s).ok }

\* the command is the one rule k builds from s
C20_BuiltBy(c, k, s) ==
  LET cfg == GetCommandConfig(command_patterns[k].name,
                              Match(command_patterns[k].pattern, s))
  IN  /\ c.type = "aws"
      /\ c.service = cfg.service
      /\ c.action = cfg.action
      /\ c.parameters = cfg.parameters

C20_Earliest ==
  last.op = "process_input"
    => LET s == Lower(Strip(last.input[1]))
       IN  s \notin HelpWords \cup ExitWords
             => IF C20_Hits(s) = {}
                  THEN last.result = "UnknownCommand"
                  ELSE /\ last.result = "command"
                       /\ \E k \in C20_Hits(s) :
                            /\ \A j \in C20_Hits(s) : k <= j
                            /\ C20_BuiltBy(cmds[last.cmd], k, s)

C20_Repeatable ==
  last.op = "process_input" /\ last'.op = "process_input" /\ last'.input = last.input
    => /\ last'.result = last.result
       /\ last.result = "command" => cmds'[last'.cmd] = cmds[last.cmd]

\* C20: for every line outside the reserved literals, the command
\* process_input returns is the one built by the earliest rule of the table
\* that matches the line (and the line is refused when none matches); and
\* process_input on the same line again gives the same outcome and an equal
\* command.
C20_FirstMatchWins == []C20_Earliest /\ [][C20_Repeatable]_vars

C20_Witness ==
  /\ Len(cmds) = 2
  /\ last.op = "process_input" /\ last.cmd = 2
  /\ last.input = Some(W_list \o SP \o W_s3 \o SP \o W_buckets)
  /\ C20_Hits(last.input[1]) = { 4 }
  /\ cmds[1] = cmds[2]

\* C21: process_input, whether it returns a command or raises, leaves
\* command_history, the calls made and every command created before as they
\* were (the rule table is fixed at construction and is never assigned); when
\* it raises it creates no command.
C21_MatcherNoSideEffects ==
  [][ last'.op = "process_input"
        => /\ command_history' = command_history
           /\ calls' = calls
           /\ \A i \in Ids : i \in DOMAIN cmds' /\ cmds'[i] = cmds[i]
           /\ last'.result = "UnknownCommand" => cmds' = cmds ]_vars

C21_Witness ==
  /\ Len(cmds) = 2
  /\ last.op = "process_input" /\ last.cmd = 2
  /\ cmds[1].is_approved /\ command_history = << 1 >>
  /\ Len(calls) = 1
  /\ SameRequest(cmds[1], cmds[2])

\* the same character, up to letter case
C22_SameLetter(x, y) ==
  x = y \/ \E k \in 1..Len(UpperSeq) : { x, y } = { UpperSeq[k], LowerSeq[k] }

\* the positions of a at which a core can start: only whitespace before
C22_Starts(a) ==
  { i \in 1..(Len(a) + 1) : \A m \in 1..(i - 1) : a[m] \in Whitespace }

\* the positions of a at which a core can end: only whitespace after
C22_Ends(a) ==
  { j \in 0..Len(a) : \A m \in (j + 1)..Len(a) : a[m] \in Whitespace }

\* a and b differ only in letter case and in leading or trailing whitespace
C22_Alike(a, b) ==
  \E i \in C22_Starts(a), j \in C22_Ends(a), k \in C22_Starts(b), l \in C22_Ends(b) :
    /\ i <= j + 1 /\ k <= l + 1
    /\ j - i = l - k
    /\ \A n \in 0..(j - i) : C22_SameLetter(a[i + n], b[k + n])

\* C22: when process_input is given two lines that differ only in letter
\* case and in leading or trailing whitespace, both give the same outcome:
\* equal commands, or the unknown-command error both times.
C22_CaseAndMarginIgnored ==
  [][ /\ last.op = "process_input" /\ last'.op = "process_input"
      /\ C22_Alike(last.input[1], last'.input[1])
      => /\ last'.result = last.result
         /\ last.result = "command" => cmds'[last'.cmd] = cmds[last.cmd]
         /\ last.result = "UnknownCommand" => last'.error = last.error ]_vars

C22_Witness ==
  /\ Len(cmds) = 2
  /\ last.op = "process_input" /\ last.cmd = 2
  /\ last.input = Some(SP \o << "L", "i", "s", "t" >> \o SP \o << "S", "3" >> \o SP
                         \o W_buckets \o SP)
  /\ cmds[2].action = W_list \o << "-" >> \o W_buckets
  /\ cmds[1] = cmds[2]

\* lines that carry more text after a form of the grammar
C30_TrailingText ==
  { W_list \o SP \o W_s3 \o SP \o W_buckets \o SP \o << "n", "o", "w" >>,
    W_create \o SP \o W_s3 \o SP \o W_bucket \o SP \o << "b", "_", "1" >> }

\* C30: process_input returns no command for a line that has more text after
\* a form of the grammar (it raises the unknown-command error), so a captured
\* bucket name or instance id is never a truncated prefix of what was typed.
C30_WholeLineOnly ==
  last.op = "process_input" /\ last.input[1] \in C30_TrailingText
    => last.result = "UnknownCommand"

\* the step is one _process_command of the CLIApp
IsProcessCommand == last'.op = "_process_command"

\* what one _process_command did, as a set
Did(o) == { o.steps[k] : k \in 1..Len(o.steps) }

C26_CallAfterYesThenApprove ==
  [][ calls' # calls
        => /\ IsProcessCommand
           /\ Len(calls') = Len(calls) + 1
           /\ calls'[Len(calls')].cmd = last'.cmd
           /\ command_history' = Append(command_history, last'.cmd)
           /\ "no" \notin Did(last')
           /\ \E p \in 2..Len(last'.steps), q \in 2..Len(last'.steps),
                 t \in 2..Len(last'.steps) :
                /\ p < q /\ q < t
                /\ last'.steps[p - 1] = "prompt" /\ last'.steps[p] = "yes"
                /\ last'.steps[q] = "approve_command"
                /\ last'.steps[t] = "call" ]_vars

C26_Witness ==
  /\ last.op = "_process_command" /\ last.result = "payload"
  /\ last.steps = << "process_input", "prompt", "yes", "approve_command",
                     "execute_command", "call" >>
  /\ calls[Len(calls)].cmd = last.cmd
  /\ cmds[last.cmd].is_approved

\* C27: when the approval prompt is answered no, the command stays
\* unapproved, the history and the calls stay as they were, and
\* _process_command returns True: run() stays in its loop.
C27_DeclineDoesNothing ==
  [][ IsProcessCommand /\ "no" \in Did(last')
        => /\ last'.result = "cancelled"
           /\ ~cmds'[last'.cmd].is_approved
           /\ cmds'[last'.cmd].approved_at = None
           /\ command_history' = command_history
           /\ calls' = calls
           /\ "approve_command" \notin Did(last')
           /\ "execute_command" \notin Did(last')
           /\ last'.returned = Some(TRUE)
           /\ app'.running /\ app'.pc = "loop" ]_vars

C27_Witness ==
  /\ last.op = "_process_command" /\ last.result = "cancelled"
  /\ last.cmd = 2 /\ GatedUnapproved(cmds[2])
  /\ command_history = << 1 >> /\ Len(calls) = 1
  /\ app.running

\* C28: in the CLIApp the length of command_history is the number of
\* approval prompts answered yes, the number of boto3 calls is at most that
\* number, and no command is in the history twice or called twice.
C28_HistoryCountsApprovals ==
  /\ Len(command_history) = app.yes
  /\ Len(calls) <= app.yes
  /\ \A h \in 1..Len(command_history), k \in 1..Len(command_history) :
       command_history[h] = command_history[k] => h = k
  /\ \A h \in 1..Len(calls), k \in 1..Len(calls) :
       calls[h].cmd = calls[k].cmd => h = k

C28_Witness ==
  /\ app.yes = 2 /\ Len(command_history) = 2
  /\ Len(calls) = 1
  /\ last.op = "_process_command"

C24_Appended == { t \in Tasks : tasks.pc[t] = "done" /\ cmds[tasks.cmd[t]].requires_approval }

\* task t takes a step
C24_Steps(t) == tasks'.pc[t] # tasks.pc[t]

C24_NoAppendLost ==
  /\ Len(command_history) = Cardinality(C24_Appended)
  /\ \A t \in C24_Appended : InHistory(tasks.cmd[t])
  /\ \A i \in Ids :
       cmds[i].requires_approval /\ cmds[i].is_approved /\ ~InHistory(i)
         => \E t \in Tasks :
              tasks.pc[t] = "append" /\ tasks.cmd[t] = i /\ tasks.owner = t

C24_NotSeparated ==
  \A t \in Tasks :
    tasks.pc[t] = "append"
      => /\ C24_Steps(t)
         /\ \A u \in Tasks \ { t } : ~C24_Steps(u)
         /\ command_history' = Append(command_history, tasks.cmd[t])

\* C24: with several asyncio tasks running approve_command on one
\* CLIInterface, every task that approved a gated command has appended it to
\* command_history (the history has one entry per such task), and once a
\* task has set is_approved the very next step is its own append: no other
\* task takes a step in between.
C24_AppendsSerialized == []C24_NoAppendLost /\ [][C24_NotSeparated]_vars

C24_Witness ==
  /\ \A t \in Tasks : tasks.pc[t] = "done"
  /\ Len(command_history) = 2
  /\ command_history[1] # command_history[2]
  /\ \A i \in Ids : cmds[i].is_approved

\* C25: when os.getenv gives no GOOGLE_API_KEY, the AI CLI has failed in
\* AICLI.__init__: no agent exists, "Fatal error" was printed, the process
\* has exited with status 1 and no line was read; and the exit status is
\* non-zero only for such a failure at startup.
C25_MissingKeyIsFatal ==
  /\ ai.key = "none"
       => /\ ai.pc = "exited" /\ ai.status = Some(1)
          /\ ~ai.agent
          /\ ai.shown = "Fatal error"
          /\ ai.read = << >>
  /\ ai.status \notin { None, Some(0) } => ai.read = << >>

C25_Witness ==
  /\ ai.key = "none" /\ ai.pc = "exited" /\ ai.status = Some(1)
  /\ last.op = "main" /\ last.result = "Fatal error"

====
